---- MODULE Spec2Model ----
(***************************************************************************)
(* Model of the Splender mesh loader (src/src/loader.cpp).                 *)
(*                                                                         *)
(* The OBJ parser load_obj_simple_internal is modelled as a state machine  *)
(* that reads its input file one line (and, inside an `f` line, one token) *)
(* at a time, then welds the collected triangle corners into the output    *)
(* buffers.  The input file is not a variable: every line and token the    *)
(* parser reads is drawn from a bounded set when it is read, which is what *)
(* a streaming reader sees.                                                *)
(*                                                                         *)
(* The bounded inputs of Spec: a path with one of six extensions, a file   *)
(* that can or cannot be opened; files of at most SmallFile bytes with at  *)
(* most MaxV `v` lines and MaxVN `vn` lines, whose vectors are pairwise    *)
(* distinct and differ from (0,0,0) and (0,0,1), at most MaxFaces `f`      *)
(* lines of at most MaxTok accepted tokens and any number of other lines;  *)
(* and larger files, up to MaxChunks times 4096 bytes, made of lines       *)
(* without a known tag, for which the bytes read are counted as            *)
(* loader.cpp:322-327 does.  In a file of at most SmallFile bytes the test *)
(* at loader.cpp:323 is false on every line, and bytesSeen is not kept.    *)
(*                                                                         *)
(* SpecPassedIn is Spec for a caller whose vectors and progress cell are   *)
(* not fresh.  SpecLine runs the token loop, the triangulation and the     *)
(* weld on every `f` line of at most MaxLine tokens.  SpecLoader and       *)
(* SpecApp model the threads of Loader and of App, with the parse reduced  *)
(* to its outcome on a file of a given kind; SpecLoaderApp has the         *)
(* behaviours of both, and SpecLoaderAppFair and SpecAppFair add that a    *)
(* task which can take a step takes it.                                    *)
(***************************************************************************)
EXTENDS Integers, Sequences, FiniteSets, TLC

(***************************************************************************)
(* Bounds of the input files.                                              *)
(***************************************************************************)
MaxV == 2        \* `v` lines in a file
MaxVN == 1       \* `vn` lines in a file
MaxFaces == 1    \* `f` lines in a file
MaxTok == 4      \* accepted vertex references on one `f` line
MaxRef == 2      \* |r| of the integers written in face tokens
MaxChunks == 2   \* size of a file, in units of 4096 bytes
MaxLine == 4     \* tokens on an `f` line that is given as a whole
MaxLoads == 2    \* calls of Loader::startInitialLoad
MaxImports == 2  \* calls of Loader::requestImportAsync
MaxAppImports == 2   \* calls of App::requestImport that pass its guard
MaxTriangles == 2    \* triangles of a mesh an App parses

\* The buffers an App makes: the constructor's, the initial load's and
\* one for each import.
MaxAppBuf == MaxAppImports + 2

(***************************************************************************)
(* Values.  A glm::vec3 is a triple of integers.                           *)
(***************************************************************************)
Zero3 == <<0, 0, 0>>            \* glm::vec3(0.0f)
DefaultNormal == <<0, 0, 1>>    \* glm::vec3(0.0f, 0.0f, 1.0f)
\* The vectors written on the k-th `v` line and on the k-th `vn` line of the
\* bounded inputs: pairwise distinct, and distinct from both defaults.
PosVal(k) == <<k, 0, 0>>
NormVal(k) == <<0, k, 0>>

Refs == (0 - MaxRef)..MaxRef

(***************************************************************************)
(* A face token is the sequence of its `/`-separated components.  A        *)
(* component is an integer, empty, or text that strtol does not accept.    *)
(***************************************************************************)
Num(n) == [text |-> "int", val |-> n]
Empty == [text |-> "empty", val |-> 0]
Junk == [text |-> "junk", val |-> 0]

Lead == {Num(r) : r \in Refs} \cup {Junk}
TexComp == {Num(1), Empty, Junk}
NormComp == {Num(r) : r \in Refs} \cup {Junk}
\* The tokens of the bounded inputs: any position reference without a third
\* component, or any third component on position reference 1.
Tokens ==
    {<<a>> : a \in Lead}
    \cup {<<a, t>> : a \in Lead, t \in TexComp}
    \cup {<<Num(1), t, n>> : t \in TexComp, n \in NormComp}

\* The tokens of an `f` line that is given as a whole: the four grammars
\* v, v/vt, v//vn and v/vt/vn, and tokens whose leading component is not
\* an integer.
LineV == {Num(1), Num(2)}
LineVT == {Num(1), Num(2)}
LineVN == {Num(1)}
GrammarTokens ==
    {<<v>> : v \in LineV}
    \cup {<<v, t>> : v \in LineV, t \in LineVT}
    \cup {<<v, Empty, n>> : v \in LineV, n \in LineVN}
    \cup {<<v, t, n>> : v \in LineV, t \in LineVT, n \in LineVN}
MalformedTokens == {<<Junk>>, <<Junk, Num(1), Num(1)>>}
LineTokens == GrammarTokens \cup MalformedTokens
Lines == UNION {[1..n -> LineTokens] : n \in 0..MaxLine}

\* strtol(s, &endptr, 10) on one component: the value, and whether any
\* character was consumed (endptr != s).
strtol(c) == IF c.text = "int" THEN [val |-> c.val, consumed |-> TRUE]
                               ELSE [val |-> 0, consumed |-> FALSE]

\* Mutant: a token that strtol rejects is taken as the reference 0 instead
\* of being skipped.
ParseToken_JunkAsZero(tok) ==
    [skip |-> FALSE,
     vi |-> strtol(tok[1]).val,
     ni |-> IF Len(tok) >= 3 THEN strtol(tok[3]).val ELSE 0]

\* Mutant: the second component is taken as the normal when there is no
\* third one.
ParseToken_VtAsVn(tok) ==
    LET lead == strtol(tok[1]) IN
    IF ~lead.consumed
    THEN [skip |-> TRUE, vi |-> 0, ni |-> 0]
    ELSE [skip |-> FALSE,
          vi |-> lead.val,
          ni |-> IF Len(tok) >= 3 THEN strtol(tok[3]).val
                 ELSE IF Len(tok) = 2 THEN strtol(tok[2]).val
                 ELSE 0]

\* The body of the token loop up to the index conversion: the raw
\* references vi and ni of a token, or skip (the `continue`).
ParseToken(tok) ==
    LET lead == strtol(tok[1]) IN
    IF ~lead.consumed
    THEN [skip |-> TRUE, vi |-> 0, ni |-> 0]
    ELSE [skip |-> FALSE,
          vi |-> lead.val,
          ni |-> IF Len(tok) >= 2
                 THEN IF tok[2] = Empty /\ Len(tok) >= 3
                      THEN strtol(tok[3]).val
                      ELSE IF strtol(tok[2]).consumed /\ Len(tok) >= 3
                           THEN strtol(tok[3]).val
                           ELSE 0
                 ELSE 0]

\* Mutant: a negative reference taken as an absolute one.
convert_index_Abs(idx, array_size) ==
    IF idx > 0 THEN idx - 1
    ELSE IF idx < 0 THEN (0 - idx) - 1
    ELSE 0 - 1

convert_index(idx, array_size) ==
    IF idx > 0 THEN idx - 1
    ELSE IF idx < 0 THEN array_size + idx
    ELSE 0 - 1

\* `posIndex >= 0 ? posIndex : -1`
FaceEntry(index) == IF index >= 0 THEN index ELSE 0 - 1

\* Mutant: the sentinel -1 taken by magnitude instead of folded into 0.
CornerIndex_Magnitude(p) == IF p >= 0 THEN p ELSE 0 - p

\* `(p0 >= 0) ? (unsigned int)p0 : 0u`
CornerIndex(p) == IF p >= 0 THEN p ELSE 0

\* Mutant: a strip (entries i-2, i-1, i) instead of a fan.
RECURSIVE FanFrom_Strip(_, _)
FanFrom_Strip(face, i) ==
    IF i >= Len(face) THEN <<>>
    ELSE <<face[i - 1], face[i], face[i + 1]>> \o FanFrom_Strip(face, i + 1)

\* The fan loop: for i = 2 .. size-1 push entries 0, i-1, i of the face
\* (zero-based; face[k+1] is entry k).
RECURSIVE FanFrom(_, _)
FanFrom(face, i) ==
    IF i >= Len(face) THEN <<>>
    ELSE <<face[1], face[i], face[i + 1]>> \o FanFrom(face, i + 1)

Fan(face) == IF Len(face) < 3 THEN <<>> ELSE FanFrom(face, 2)

CornerIndices(s) == [k \in 1..Len(s) |-> CornerIndex(s[k])]

\* Mutant: the zero-based index used as a one-based one.
OutPosition_OneBased(tp, p) ==
    IF Len(tp) > p THEN (IF p >= 1 THEN tp[p] ELSE tp[1]) ELSE Zero3

\* Mutant: an out-of-range index clamped to the last position of the pool.
OutPosition_Clamp(tp, p) ==
    IF Len(tp) > p THEN tp[p + 1]
    ELSE IF tp # <<>> THEN tp[Len(tp)] ELSE Zero3

\* out_positions.push_back(...) of a new vertex
OutPosition(tp, p) == IF Len(tp) > p THEN tp[p + 1] ELSE Zero3

\* out_normals.push_back(...) of a new vertex
OutNormal(tn, n) == IF tn # <<>> /\ n < Len(tn) THEN tn[n + 1] ELSE DefaultNormal

\* Mutant: the new index is taken after the position is pushed.
WeldCorner_OneBased(acc, p, n, tp, tn) ==
    LET key == <<p, n>> IN
    IF key \in DOMAIN acc.map
    THEN [acc EXCEPT !.indices = Append(@, acc.map[key])]
    ELSE LET newIndex == Len(acc.positions) + 1 IN
         [map |-> (key :> newIndex) @@ acc.map,
          positions |-> Append(acc.positions, OutPosition(tp, p)),
          normals |-> Append(acc.normals, OutNormal(tn, n)),
          indices |-> Append(acc.indices, newIndex)]

\* Mutant: every corner becomes a new vertex (no lookup).
WeldCorner_NoLookup(acc, p, n, tp, tn) ==
    LET newIndex == Len(acc.positions) IN
    [map |-> acc.map,
     positions |-> Append(acc.positions, OutPosition(tp, p)),
     normals |-> Append(acc.normals, OutNormal(tn, n)),
     indices |-> Append(acc.indices, newIndex)]

\* One iteration of the weld loop on key (p, n).
WeldCorner(acc, p, n, tp, tn) ==
    LET key == <<p, n>> IN
    IF key \in DOMAIN acc.map
    THEN [acc EXCEPT !.indices = Append(@, acc.map[key])]
    ELSE LET newIndex == Len(acc.positions) IN
         [map |-> (key :> newIndex) @@ acc.map,
          positions |-> Append(acc.positions, OutPosition(tp, p)),
          normals |-> Append(acc.normals, OutNormal(tn, n)),
          indices |-> Append(acc.indices, newIndex)]

RECURSIVE WeldFrom(_, _, _, _, _, _)
WeldFrom(acc, i, pi, ni, tp, tn) ==
    IF i > Len(pi) THEN acc
    ELSE WeldFrom(WeldCorner(acc, pi[i], ni[i], tp, tn), i + 1, pi, ni, tp, tn)

EmptyMesh == [map |-> <<>>, positions |-> <<>>, normals |-> <<>>, indices |-> <<>>]

Weld(pi, ni, tp, tn) == WeldFrom(EmptyMesh, 1, pi, ni, tp, tn)

(***************************************************************************)
(* Progress values.  A float in [0,1] is a fraction <<numerator,           *)
(* denominator>>; the cell before any store holds Unset.                   *)
(***************************************************************************)
Unset == <<>>
Zero == <<0, 1>>     \* 0.0f
One == <<1, 1>>      \* 1.0f
Leq(a, b) == a[1] * b[2] <= b[1] * a[2]

PROGRESS_UPDATE_GRANULARITY == 4096

\* The largest file size for which the test at loader.cpp:323 is false on
\* every line: bytesSeen never exceeds fileBytes + 1.
SmallFile == PROGRESS_UPDATE_GRANULARITY - 2

\* The sizes of the input files: empty, SmallFile, and within one byte of
\* a multiple of the granularity up to MaxChunks times.
FileSizes ==
    {0, SmallFile}
    \cup {k * PROGRESS_UPDATE_GRANULARITY + d : k \in 1..MaxChunks, d \in {0 - 1, 0, 1}}
\* Lengths (without the newline) of the lines of the files larger than
\* SmallFile.
LineLens ==
    {PROGRESS_UPDATE_GRANULARITY \div 2 - 1, PROGRESS_UPDATE_GRANULARITY - 1,
     PROGRESS_UPDATE_GRANULARITY}

\* Mutant: the fraction stored without std::min(1.0f, .).
LoopProgress_NoMin(seen, bytes) ==
    IF bytes > 0 THEN <<seen, bytes>> ELSE Zero

\* `(fileBytes > 0) ? std::min(1.0f, float(bytesSeen) / float(fileBytes)) : 0.0f`
LoopProgress(seen, bytes) ==
    IF bytes > 0
    THEN IF seen >= bytes THEN One ELSE <<seen, bytes>>
    ELSE Zero

(***************************************************************************)
(* Paths are told apart by their extension as written.                     *)
(***************************************************************************)
Extensions == {".obj", ".OBJ", "", ".stl", ".STL", ".txt"}
tolower(e) == CASE e = ".OBJ" -> ".obj"
                [] e = ".STL" -> ".stl"
                [] OTHER -> e
extlower(e) == tolower(e)
AssimpExtensions == {".fbx", ".dae", ".gltf", ".glb", ".ply", ".stl"}

\* The mesh the Assimp branch outputs for a scene with faces: not modelled
\* beyond being non-empty.
AssimpMesh == [positions |-> <<Zero3>>, normals |-> <<DefaultNormal>>,
               indices |-> <<0, 0, 0>>]

VARIABLES
    pc,             \* position of the call: call, open, scan, face, done
                    \* and failed in the OBJ parser; assimp, and returned
                    \* for the returns of load_model_simple itself
    temp_pos,       \* positions read so far
    temp_norm,      \* normals read so far
    pos_idx,        \* position index of every triangle corner emitted so far
    norm_idx,       \* normal index of every triangle corner emitted so far
    face_pos_idx,   \* converted position references of the face being read
    face_norm_idx,  \* converted normal references of the face being read
    out_positions,
    out_normals,
    out_indices,
    progress,       \* the progress cell; Unset before the first store
    ret,            \* the return value; "none" while running
    nfaces,         \* `f` lines read so far
    face_raw,       \* history: per accepted token of this face, the locals
                    \* vi, ni, posIndex, normIndex, the pool sizes
                    \* (npos, nnorm) and the face entries pushed (fp, fn)
    corners,        \* history: the face_raw record of every emitted corner
    openable,       \* whether the file at the path can be opened for reading
    route,          \* the branch of load_model_simple taken; "none" before
    fileBytes,      \* the size tellg() reports
    bytesSeen,
    lastProgressUpdateBytes,
    stores          \* history: the values stored into the progress cell

VARIABLES
    line,           \* the tokens of one `f` line, when the line is given
    consumed        \* how many of them the token loop has read

pvars == <<pc, temp_pos, temp_norm, pos_idx, norm_idx, face_pos_idx,
           face_norm_idx, out_positions, out_normals, out_indices, progress,
           ret, nfaces, face_raw, corners, openable, route, fileBytes,
           bytesSeen, lastProgressUpdateBytes, stores>>
linevars == <<line, consumed>>

(***************************************************************************)
(* Loader (loader.h).  A mesh is the three vectors positions, normals and  *)
(* indices, which are always made, moved and dropped together: one buffer  *)
(* id stands for the three, 0 for null pointers.  A buffer is released     *)
(* when the last of positions_ptr and import_positions_ptr that held it    *)
(* lets go of it (no copy taken through positions() is kept).              *)
(***************************************************************************)
VARIABLES
    positions_ptr,          \* with normals_ptr and indices_ptr
    import_positions_ptr,   \* with import_normals_ptr and import_indices_ptr
    import_ready,           \* "null", "false" or "true"
    import_failed,          \* "null", "false" or "true"
    modelReady,
    modelLoadFailed,
    nextBuf,                \* the id the next make_shared returns
    released,               \* the buffers that have been released
    initial_pc,             \* the initialLoader task: idle, launched,
                            \* writing, done
    initial_out,            \* the buffer its load_model_simple writes
    import_pc,              \* the importLoaderFuture task, likewise
    import_out,
    nloads,
    nimports,
    crashed,                \* the process has died of a write to freed memory
    initial_file,           \* the kind of file startInitialLoad was given
    import_file,            \* the kind of file requestImportAsync was given
    finish_tick,            \* history: flips at every maybeFinishImport call
    finish_ret,             \* history: what the last call since the last
                            \* request returned: "none", "true" or "false"
    finish_at               \* history: import_pc as that call found it

loadervars == <<positions_ptr, import_positions_ptr, import_ready,
                import_failed, modelReady, modelLoadFailed, nextBuf, released,
                initial_pc, initial_out, import_pc, import_out, nloads,
                nimports, crashed, initial_file, import_file, finish_tick,
                finish_ret, finish_at>>

\* The history of the maybeFinishImport calls.
finishvars == <<finish_tick, finish_ret, finish_at>>

\* The state the constructor Loader::Loader leaves.
LoaderIdle ==
    /\ positions_ptr = 1
    /\ import_positions_ptr = 0
    /\ import_ready = "null"
    /\ import_failed = "null"
    /\ modelReady = FALSE
    /\ modelLoadFailed = FALSE
    /\ nextBuf = 2
    /\ released = {}
    /\ initial_pc = "idle"
    /\ initial_out = 0
    /\ import_pc = "idle"
    /\ import_out = 0
    /\ nloads = 0
    /\ nimports = 0
    /\ crashed = FALSE
    /\ initial_file = "none"
    /\ import_file = "none"
    /\ finish_tick = FALSE
    /\ finish_ret = "none"
    /\ finish_at = "none"

(***************************************************************************)
(* App::Impl (app.cpp) and the global isLoading.  Buffers as in Loader.    *)
(***************************************************************************)
VARIABLES
    isLoading,
    app_positions_ptr,
    app_import_positions_ptr,
    app_import_ready,       \* "null", "false" or "true"
    app_import_failed,      \* "null", "false" or "true"
    app_modelReady,
    app_modelLoadFailed,
    modelUploaded,
    app_nextBuf,
    app_released,
    app_initial_pc,         \* idle, launched, parsing, stored, done
    app_initial_out,
    app_import_pc,          \* idle, launched, parsing, stored, done
    app_import_out,
    frame,                  \* position of App::run: start, events, finish,
                            \* upload
    app_nimports,
    parsed_ok,              \* history: the buffers of the imports that parsed
    swapped_in,             \* history: the import buffers made current
    app_initial_file,       \* the kind of file App::run loads first
    app_import_file,        \* the kind of file the import was given
    app_index_count,        \* the number of indices in each buffer
    model_index_count,
    model_ebo               \* the buffer whose mesh the GL objects hold,
                            \* 0 when there are none

appvars == <<isLoading, app_positions_ptr, app_import_positions_ptr,
             app_import_ready, app_import_failed, app_modelReady,
             app_modelLoadFailed, modelUploaded, app_nextBuf, app_released,
             app_initial_pc, app_initial_out, app_import_pc, app_import_out,
             frame, app_nimports, parsed_ok, swapped_in, app_initial_file,
             app_import_file, app_index_count, model_index_count, model_ebo>>

\* The GL side of App::Impl and the contents of the buffers.
glvars == <<app_index_count, model_index_count, model_ebo>>

\* The state of a constructed App::Impl before App::run.
AppIdle ==
    /\ isLoading = FALSE
    /\ app_positions_ptr = 1
    /\ app_import_positions_ptr = 0
    /\ app_import_ready = "null"
    /\ app_import_failed = "null"
    /\ app_modelReady = FALSE
    /\ app_modelLoadFailed = FALSE
    /\ modelUploaded = FALSE
    /\ app_nextBuf = 2
    /\ app_released = {}
    /\ app_initial_pc = "idle"
    /\ app_initial_out = 0
    /\ app_import_pc = "idle"
    /\ app_import_out = 0
    /\ frame = "start"
    /\ app_nimports = 0
    /\ parsed_ok = {}
    /\ swapped_in = {}
    /\ app_initial_file = "none"
    /\ app_import_file = "none"
    /\ app_index_count = [b \in 0..MaxAppBuf |-> 0]
    /\ model_index_count = 0
    /\ model_ebo = 0

vars == <<pvars, linevars, loadervars, appvars>>

\* What a call of load_model_simple leaves alone.
notParser == <<linevars, loadervars, appvars>>

ParserLocalsInit ==
    /\ temp_pos = <<>>
    /\ temp_norm = <<>>
    /\ pos_idx = <<>>
    /\ norm_idx = <<>>
    /\ face_pos_idx = <<>>
    /\ face_norm_idx = <<>>
    /\ ret = "none"
    /\ nfaces = 0
    /\ face_raw = <<>>
    /\ corners = <<>>
    /\ route = "none"
    /\ fileBytes = 0
    /\ bytesSeen = 0
    /\ lastProgressUpdateBytes = 0
    /\ stores = <<>>

NoLine == line = <<>> /\ consumed = 0

\* A call of load_model_simple with empty output vectors and a fresh
\* progress cell, on a path that can or cannot be opened.
Init ==
    /\ pc = "call"
    /\ openable \in BOOLEAN
    /\ out_positions = <<>>
    /\ out_normals = <<>>
    /\ out_indices = <<>>
    /\ progress = Unset
    /\ ParserLocalsInit
    /\ NoLine
    /\ LoaderIdle
    /\ AppIdle

\* load_model_simple: the branch is chosen by the lower-cased extension;
\* an extension that no branch takes is reported and fails.
Dispatch ==
    /\ pc = "call"
    /\ \E path \in Extensions, USE_ASSIMP \in BOOLEAN :
         LET ext == extlower(path) IN
         IF ext = ".obj"
         THEN /\ route' = "obj"
              /\ pc' = "open"
              /\ UNCHANGED <<progress, stores, ret>>
         ELSE IF USE_ASSIMP /\ ext \in AssimpExtensions
         THEN /\ route' = "assimp"
              /\ pc' = "assimp"
              /\ progress' = Zero
              /\ stores' = Append(stores, Zero)
              /\ UNCHANGED ret
         ELSE IF ext = ""
         THEN /\ route' = "obj"
              /\ pc' = "open"
              /\ UNCHANGED <<progress, stores, ret>>
         ELSE /\ route' = "unsupported"
              /\ pc' = "returned"
              /\ progress' = One
              /\ stores' = Append(stores, One)
              /\ ret' = FALSE
    /\ UNCHANGED <<temp_pos, temp_norm, pos_idx, norm_idx, face_pos_idx,
                   face_norm_idx, out_positions, out_normals, out_indices,
                   nfaces, face_raw, corners, openable, fileBytes, bytesSeen,
                   lastProgressUpdateBytes>>
    /\ UNCHANGED notParser

\* The Assimp branch: no scene or a scene without meshes fails and leaves
\* the outputs alone; otherwise the outputs are replaced and the call
\* succeeds when there is at least one index.
AssimpImport ==
    /\ pc = "assimp"
    /\ \E scene \in {"none", "nofaces", "mesh"} :
         /\ ~openable => scene = "none"
         /\ IF scene = "none"
            THEN UNCHANGED <<out_positions, out_normals, out_indices>>
            ELSE IF scene = "nofaces"
            THEN /\ out_positions' = <<>>
                 /\ out_normals' = <<>>
                 /\ out_indices' = <<>>
            ELSE /\ out_positions' = AssimpMesh.positions
                 /\ out_normals' = AssimpMesh.normals
                 /\ out_indices' = AssimpMesh.indices
         /\ ret' = (scene = "mesh")
         /\ pc' = "returned"
    /\ progress' = One
    /\ stores' = Append(stores, One)
    /\ UNCHANGED <<temp_pos, temp_norm, pos_idx, norm_idx, face_pos_idx,
                   face_norm_idx, nfaces, face_raw, corners, openable, route,
                   fileBytes, bytesSeen, lastProgressUpdateBytes>>
    /\ UNCHANGED notParser

\* Mutant: the failed open empties the caller's vectors and resets the cell.
OpenFail_Clears ==
    /\ pc = "open"
    /\ ~openable
    /\ pc' = "failed"
    /\ ret' = FALSE
    /\ out_positions' = <<>>
    /\ out_normals' = <<>>
    /\ out_indices' = <<>>
    /\ progress' = Zero
    /\ stores' = Append(stores, Zero)
    /\ UNCHANGED <<temp_pos, temp_norm, pos_idx, norm_idx, face_pos_idx,
                   face_norm_idx, nfaces, face_raw, corners, openable, route,
                   fileBytes, bytesSeen, lastProgressUpdateBytes>>
    /\ UNCHANGED notParser

\* The file cannot be opened: return false.
OpenFail ==
    /\ pc = "open"
    /\ ~openable
    /\ pc' = "failed"
    /\ ret' = FALSE
    /\ UNCHANGED <<temp_pos, temp_norm, pos_idx, norm_idx, face_pos_idx,
                   face_norm_idx, out_positions, out_normals, out_indices,
                   progress, nfaces, face_raw, corners, openable, route,
                   fileBytes, bytesSeen, lastProgressUpdateBytes, stores>>
    /\ UNCHANGED notParser

\* The file opens: its size is taken, progress is set to 0 and the line
\* loop starts.
OpenOk ==
    /\ pc = "open"
    /\ openable
    /\ pc' = "scan"
    /\ fileBytes' \in FileSizes
    /\ bytesSeen' = 0
    /\ lastProgressUpdateBytes' = 0
    /\ progress' = Zero
    /\ stores' = Append(stores, Zero)
    /\ UNCHANGED <<temp_pos, temp_norm, pos_idx, norm_idx, face_pos_idx,
                   face_norm_idx, out_positions, out_normals, out_indices,
                   ret, nfaces, face_raw, corners, openable, route>>
    /\ UNCHANGED notParser

\* The file opens but its size cannot be taken (a FIFO, a directory): tellg
\* fails, fileBytes is the failure value cast to size_t, and the first
\* reserve throws std::bad_alloc out of the call, before the first progress
\* store. Nothing is returned.
OpenThrows ==
    /\ pc = "open"
    /\ openable
    /\ pc' = "thrown"
    /\ UNCHANGED <<temp_pos, temp_norm, pos_idx, norm_idx, face_pos_idx,
                   face_norm_idx, out_positions, out_normals, out_indices,
                   progress, ret, nfaces, face_raw, corners, openable, route,
                   fileBytes, bytesSeen, lastProgressUpdateBytes, stores>>
    /\ UNCHANGED notParser

\* The files with `v`, `vn` and `f` lines are those of at most SmallFile
\* bytes: no line of them passes the test at loader.cpp:323, and bytesSeen
\* is not kept for them.
Geometry == 0 < fileBytes /\ fileBytes <= SmallFile

\* A `v` line.
ReadV ==
    /\ pc = "scan"
    /\ Geometry
    /\ Len(temp_pos) < MaxV
    /\ temp_pos' = Append(temp_pos, PosVal(Len(temp_pos) + 1))
    /\ UNCHANGED <<pc, temp_norm, pos_idx, norm_idx, face_pos_idx,
                   face_norm_idx, out_positions, out_normals, out_indices,
                   progress, ret, nfaces, face_raw, corners, openable, route,
                   fileBytes, bytesSeen, lastProgressUpdateBytes, stores>>
    /\ UNCHANGED notParser

\* A `vn` line.
ReadVN ==
    /\ pc = "scan"
    /\ Geometry
    /\ Len(temp_norm) < MaxVN
    /\ temp_norm' = Append(temp_norm, NormVal(Len(temp_norm) + 1))
    /\ UNCHANGED <<pc, temp_pos, pos_idx, norm_idx, face_pos_idx,
                   face_norm_idx, out_positions, out_normals, out_indices,
                   progress, ret, nfaces, face_raw, corners, openable, route,
                   fileBytes, bytesSeen, lastProgressUpdateBytes, stores>>
    /\ UNCHANGED notParser

\* A line with any other tag (comment, vt, g, blank ...): nothing is stored.
ReadOther ==
    /\ pc = "scan"
    /\ Geometry
    /\ UNCHANGED vars

\* A line of n characters with no tag the parser knows, in a file larger
\* than SmallFile: the bytes are counted and the progress cell is updated
\* once PROGRESS_UPDATE_GRANULARITY bytes have gone by since the last
\* update.  The line has one of the lengths LineLens or is the rest of the
\* file; only the last line of a file can lack its newline.
ReadCounted ==
    /\ pc = "scan"
    /\ fileBytes > SmallFile
    /\ bytesSeen < fileBytes
    /\ \E n \in LineLens \cup {fileBytes - bytesSeen - 1, fileBytes - bytesSeen} :
         /\ n + 1 <= fileBytes - bytesSeen \/ (n >= 1 /\ n = fileBytes - bytesSeen)
         /\ bytesSeen' = bytesSeen + n + 1
         /\ IF bytesSeen' - lastProgressUpdateBytes >= PROGRESS_UPDATE_GRANULARITY
            THEN /\ progress' = LoopProgress(bytesSeen', fileBytes)
                 /\ stores' = Append(stores, progress')
                 /\ lastProgressUpdateBytes' = bytesSeen'
            ELSE UNCHANGED <<progress, stores, lastProgressUpdateBytes>>
    /\ UNCHANGED <<pc, temp_pos, temp_norm, pos_idx, norm_idx, face_pos_idx,
                   face_norm_idx, out_positions, out_normals, out_indices,
                   ret, nfaces, face_raw, corners, openable, route, fileBytes>>
    /\ UNCHANGED notParser

\* The tag `f`: the token loop starts with empty face vectors.
BeginFace ==
    /\ pc = "scan"
    /\ Geometry
    /\ nfaces < MaxFaces
    /\ pc' = "face"
    /\ nfaces' = nfaces + 1
    /\ face_pos_idx' = <<>>
    /\ face_norm_idx' = <<>>
    /\ face_raw' = <<>>
    /\ UNCHANGED <<temp_pos, temp_norm, pos_idx, norm_idx, out_positions,
                   out_normals, out_indices, progress, ret, corners, openable,
                   route, fileBytes, bytesSeen, lastProgressUpdateBytes,
                   stores>>
    /\ UNCHANGED notParser

\* The body of `while (ss >> vert)` on the token tok.
TokenStep(tok) ==
    /\ LET t == ParseToken(tok) IN
         IF t.skip
         THEN UNCHANGED <<face_pos_idx, face_norm_idx, face_raw>>
         ELSE LET posIndex == convert_index(t.vi, Len(temp_pos))
                  normIndex == convert_index(t.ni, Len(temp_norm))
              IN /\ face_pos_idx' = Append(face_pos_idx, FaceEntry(posIndex))
                 /\ face_norm_idx' = Append(face_norm_idx, FaceEntry(normIndex))
                 /\ face_raw' = Append(face_raw,
                        [vi |-> t.vi, ni |-> t.ni,
                         npos |-> Len(temp_pos), nnorm |-> Len(temp_norm),
                         posIndex |-> posIndex, normIndex |-> normIndex,
                         fp |-> FaceEntry(posIndex), fn |-> FaceEntry(normIndex)])
    /\ UNCHANGED <<pc, temp_pos, temp_norm, pos_idx, norm_idx, out_positions,
                   out_normals, out_indices, progress, ret, nfaces, corners,
                   openable, route, fileBytes, bytesSeen,
                   lastProgressUpdateBytes, stores>>

\* One iteration of `while (ss >> vert)`.
ReadToken ==
    /\ pc = "face"
    /\ Len(face_pos_idx) < MaxTok
    /\ \E tok \in Tokens : TokenStep(tok)
    /\ UNCHANGED notParser

\* One iteration of `while (ss >> vert)` on a line that is given.
LineToken ==
    /\ pc = "face"
    /\ consumed < Len(line)
    /\ TokenStep(line[consumed + 1])
    /\ consumed' = consumed + 1
    /\ UNCHANGED <<line, loadervars, appvars>>

\* The end of an `f` line: the face is skipped or fan-triangulated.
EndFace ==
    /\ pc = "face"
    /\ consumed = Len(line)
    /\ pc' = "scan"
    /\ pos_idx' = pos_idx \o CornerIndices(Fan(face_pos_idx))
    /\ norm_idx' = norm_idx \o CornerIndices(Fan(face_norm_idx))
    /\ corners' = corners \o Fan(face_raw)
    /\ face_pos_idx' = <<>>
    /\ face_norm_idx' = <<>>
    /\ face_raw' = <<>>
    /\ UNCHANGED <<temp_pos, temp_norm, out_positions, out_normals,
                   out_indices, progress, ret, nfaces, openable, route,
                   fileBytes, bytesSeen, lastProgressUpdateBytes, stores>>
    /\ UNCHANGED notParser

\* End of file: the weld loop fills the output buffers, progress is set to
\* 1 and the parser returns true.
WeldAndReturn ==
    /\ pc = "scan"
    /\ fileBytes > SmallFile => bytesSeen >= fileBytes
    /\ LET m == Weld(pos_idx, norm_idx, temp_pos, temp_norm) IN
         /\ out_positions' = m.positions
         /\ out_normals' = m.normals
         /\ out_indices' = m.indices
    /\ progress' = One
    /\ stores' = Append(stores, One)
    /\ ret' = TRUE
    /\ pc' = "done"
    /\ UNCHANGED <<temp_pos, temp_norm, pos_idx, norm_idx, face_pos_idx,
                   face_norm_idx, nfaces, face_raw, corners, openable, route,
                   fileBytes, bytesSeen, lastProgressUpdateBytes>>
    /\ UNCHANGED notParser

Next ==
    \/ Dispatch
    \/ AssimpImport
    \/ OpenFail
    \/ OpenOk
    \/ OpenThrows
    \/ ReadV
    \/ ReadVN
    \/ ReadOther
    \/ ReadCounted
    \/ BeginFace
    \/ ReadToken
    \/ EndFace
    \/ WeldAndReturn

Spec == Init /\ [][Next]_vars

\* A call whose output vectors and progress cell hold what an earlier load
\* left in them.
StaleMesh == [positions |-> <<PosVal(1)>>, normals |-> <<NormVal(1)>>,
              indices |-> <<0, 0, 0>>]

InitPassedIn ==
    /\ pc = "call"
    /\ openable \in BOOLEAN
    /\ out_positions = StaleMesh.positions
    /\ out_normals = StaleMesh.normals
    /\ out_indices = StaleMesh.indices
    /\ progress = One
    /\ ParserLocalsInit
    /\ NoLine
    /\ LoaderIdle
    /\ AppIdle

SpecPassedIn == InitPassedIn /\ [][Next]_vars

\* The parser at the start of the token loop of an `f` line that follows
\* MaxV `v` lines and MaxVN `vn` lines in a file of at most SmallFile bytes;
\* the line is the last line of the file.
InitLine ==
    /\ pc = "face"
    /\ openable = TRUE
    /\ route = "obj"
    /\ fileBytes = SmallFile
    /\ bytesSeen = 0
    /\ lastProgressUpdateBytes = 0
    /\ progress = Zero
    /\ stores = <<Zero>>
    /\ temp_pos = [k \in 1..MaxV |-> PosVal(k)]
    /\ temp_norm = [k \in 1..MaxVN |-> NormVal(k)]
    /\ pos_idx = <<>>
    /\ norm_idx = <<>>
    /\ face_pos_idx = <<>>
    /\ face_norm_idx = <<>>
    /\ out_positions = <<>>
    /\ out_normals = <<>>
    /\ out_indices = <<>>
    /\ ret = "none"
    /\ nfaces = 1
    /\ face_raw = <<>>
    /\ corners = <<>>
    /\ line \in Lines
    /\ consumed = 0
    /\ LoaderIdle
    /\ AppIdle

NextLine ==
    \/ LineToken
    \/ EndFace
    \/ WeldAndReturn

SpecLine == InitLine /\ [][NextLine]_vars

(***************************************************************************)
(* Loader: the calls startInitialLoad, requestImportAsync and              *)
(* maybeFinishImport of the owning thread, and the two tasks they launch.  *)
(* A task evaluates `*positions_ptr` (or `*import_positions_ptr`) when its *)
(* lambda starts to run, which is the buffer its load_model_simple then    *)
(* writes until it returns.  At most one initial load and one import are   *)
(* in flight.                                                              *)
(***************************************************************************)
notLoader == <<pvars, linevars, appvars>>

\* No call is in progress on the parser variables.
ParserIdle ==
    /\ pc = "call"
    /\ openable = TRUE
    /\ out_positions = <<>>
    /\ out_normals = <<>>
    /\ out_indices = <<>>
    /\ progress = Unset
    /\ ParserLocalsInit

\* The files a load can be given: one that cannot be opened, one that
\* load_model_simple parses, one that opens but is rejected (an unsupported
\* extension, an Assimp scene without a mesh) and one that opens but has no
\* size to take (a FIFO, a directory).
FileKinds == {"unopenable", "parses", "rejected", "unseekable"}

\* How the call of load_model_simple on such a file ends: it returns true
\* or false, or std::bad_alloc leaves it (OpenThrows).
load_model_simple(file) ==
    CASE file = "parses" -> "true"
      [] file = "unopenable" -> "false"
      [] file = "rejected" -> "false"
      [] file = "unseekable" -> "throws"

\* The calls that write the caller's vectors: a failed open and the throw
\* come before the first write.
Writes(file) == file \in {"parses", "rejected"}

InitialWrites == initial_pc = "writing" /\ Writes(initial_file)

ImportWrites == import_pc = "writing" /\ Writes(import_file)

InitLoader ==
    /\ ParserIdle
    /\ NoLine
    /\ LoaderIdle
    /\ AppIdle

startInitialLoad ==
    /\ ~crashed
    /\ nloads < MaxLoads
    /\ initial_pc \in {"idle", "done"}
    /\ positions_ptr' = nextBuf
    /\ nextBuf' = nextBuf + 1
    /\ released' = released \cup {positions_ptr}
    /\ modelLoadFailed' = FALSE
    /\ modelReady' = FALSE
    /\ initial_pc' = "launched"
    /\ nloads' = nloads + 1
    /\ initial_file' \in FileKinds
    /\ UNCHANGED <<import_positions_ptr, import_ready, import_failed,
                   initial_out, import_pc, import_out, nimports, crashed>>
    /\ UNCHANGED <<import_file, finishvars>>
    /\ UNCHANGED notLoader

\* The lambda of startInitialLoad starts: load_model_simple is called on
\* the vectors positions_ptr refers to now.
InitialWorkerStart ==
    /\ ~crashed
    /\ initial_pc = "launched"
    /\ initial_pc' = "writing"
    /\ initial_out' = positions_ptr
    /\ UNCHANGED <<positions_ptr, import_positions_ptr, import_ready,
                   import_failed, modelReady, modelLoadFailed, nextBuf,
                   released, import_pc, import_out, nloads, nimports, crashed>>
    /\ UNCHANGED <<initial_file, import_file, finishvars>>
    /\ UNCHANGED notLoader

\* Mutant: the initial task stores the outcome the wrong way round.
InitialWorkerFinish_Swapped ==
    /\ ~crashed
    /\ initial_pc = "writing"
    /\ initial_pc' = "done"
    /\ LET ok == load_model_simple(initial_file) IN
         IF ok = "false" THEN modelReady' = TRUE /\ UNCHANGED modelLoadFailed
         ELSE IF ok = "true"
         THEN modelLoadFailed' = TRUE /\ UNCHANGED modelReady
         ELSE UNCHANGED <<modelReady, modelLoadFailed>>
    /\ UNCHANGED <<positions_ptr, import_positions_ptr, import_ready,
                   import_failed, nextBuf, released, initial_out, import_pc,
                   import_out, nloads, nimports, crashed>>
    /\ UNCHANGED <<initial_file, import_file, finishvars>>
    /\ UNCHANGED notLoader

\* load_model_simple returns in the initial task and the outcome is
\* stored, or its exception ends the task.
InitialWorkerFinish ==
    /\ ~crashed
    /\ initial_pc = "writing"
    /\ initial_pc' = "done"
    /\ LET ok == load_model_simple(initial_file) IN
         IF ok = "true" THEN modelReady' = TRUE /\ UNCHANGED modelLoadFailed
         ELSE IF ok = "false"
         THEN modelLoadFailed' = TRUE /\ UNCHANGED modelReady
         ELSE UNCHANGED <<modelReady, modelLoadFailed>>
    /\ UNCHANGED <<positions_ptr, import_positions_ptr, import_ready,
                   import_failed, nextBuf, released, initial_out, import_pc,
                   import_out, nloads, nimports, crashed>>
    /\ UNCHANGED <<initial_file, import_file, finishvars>>
    /\ UNCHANGED notLoader

requestImportAsync ==
    /\ ~crashed
    /\ nimports < MaxImports
    /\ import_pc \in {"idle", "done"}
    /\ import_positions_ptr' = nextBuf
    /\ nextBuf' = nextBuf + 1
    /\ released' = IF import_positions_ptr = 0 THEN released
                   ELSE released \cup {import_positions_ptr}
    /\ import_ready' = "false"
    /\ import_failed' = "false"
    /\ import_pc' = "launched"
    /\ nimports' = nimports + 1
    /\ import_file' \in FileKinds
    /\ finish_ret' = "none"
    /\ finish_at' = "none"
    /\ UNCHANGED <<positions_ptr, modelReady, modelLoadFailed, initial_pc,
                   initial_out, import_out, nloads, crashed, initial_file,
                   finish_tick>>
    /\ UNCHANGED notLoader

\* The lambda of requestImportAsync starts.
ImportWorkerStart ==
    /\ ~crashed
    /\ import_pc = "launched"
    /\ import_pc' = "writing"
    /\ import_out' = import_positions_ptr
    /\ UNCHANGED <<positions_ptr, import_positions_ptr, import_ready,
                   import_failed, modelReady, modelLoadFailed, nextBuf,
                   released, initial_pc, initial_out, nloads, nimports,
                   crashed>>
    /\ UNCHANGED <<initial_file, import_file, finishvars>>
    /\ UNCHANGED notLoader

\* load_model_simple returns in the import task and the outcome is
\* stored, or its exception ends the task.
ImportWorkerFinish ==
    /\ ~crashed
    /\ import_pc = "writing"
    /\ import_pc' = "done"
    /\ LET ok == load_model_simple(import_file) IN
         IF ok = "true" THEN import_ready' = "true" /\ UNCHANGED import_failed
         ELSE IF ok = "false"
         THEN import_failed' = "true" /\ UNCHANGED import_ready
         ELSE UNCHANGED <<import_ready, import_failed>>
    /\ UNCHANGED <<positions_ptr, import_positions_ptr, modelReady,
                   modelLoadFailed, nextBuf, released, initial_pc,
                   initial_out, import_out, nloads, nimports, crashed>>
    /\ UNCHANGED <<initial_file, import_file, finishvars>>
    /\ UNCHANGED notLoader

\* Mutant: the import state is reset without the import's vectors being
\* moved into the current mesh.
maybeFinishImport_NoMove ==
    /\ ~crashed
    /\ IF import_ready = "true"
       THEN /\ IF import_failed = "true"
               THEN UNCHANGED <<positions_ptr, import_positions_ptr,
                                released, modelReady, modelLoadFailed>>
               ELSE /\ positions_ptr' = positions_ptr
                    /\ import_positions_ptr' = 0
                    /\ released' = released \cup {import_positions_ptr}
                    /\ modelReady' = TRUE
                    /\ modelLoadFailed' = FALSE
            /\ import_ready' = "null"
            /\ import_failed' = "null"
            /\ finish_ret' = "true"
       ELSE /\ finish_ret' = "false"
            /\ UNCHANGED <<positions_ptr, import_positions_ptr, released,
                           modelReady, modelLoadFailed, import_ready,
                           import_failed>>
    /\ finish_tick' = ~finish_tick
    /\ finish_at' = import_pc
    /\ UNCHANGED <<nextBuf, initial_pc, initial_out, import_pc, import_out,
                   nloads, nimports, crashed, initial_file, import_file>>
    /\ UNCHANGED notLoader

\* Mutant: a failed import is finished like a parsed one.
maybeFinishImport_SwapsFailed ==
    /\ ~crashed
    /\ IF import_ready = "true" \/ import_failed = "true"
       THEN /\ positions_ptr' = import_positions_ptr
            /\ import_positions_ptr' = 0
            /\ released' = released \cup {positions_ptr}
            /\ modelReady' = TRUE
            /\ modelLoadFailed' = FALSE
            /\ import_ready' = "null"
            /\ import_failed' = "null"
            /\ finish_ret' = "true"
       ELSE /\ finish_ret' = "false"
            /\ UNCHANGED <<positions_ptr, import_positions_ptr, released,
                           modelReady, modelLoadFailed, import_ready,
                           import_failed>>
    /\ finish_tick' = ~finish_tick
    /\ finish_at' = import_pc
    /\ UNCHANGED <<nextBuf, initial_pc, initial_out, import_pc, import_out,
                   nloads, nimports, crashed, initial_file, import_file>>
    /\ UNCHANGED notLoader

maybeFinishImport ==
    /\ ~crashed
    /\ IF import_ready = "true"
       THEN /\ IF import_failed = "true"
               THEN UNCHANGED <<positions_ptr, import_positions_ptr,
                                released, modelReady, modelLoadFailed>>
               ELSE /\ positions_ptr' = import_positions_ptr
                    /\ import_positions_ptr' = 0
                    /\ released' = released \cup {positions_ptr}
                    /\ modelReady' = TRUE
                    /\ modelLoadFailed' = FALSE
            /\ import_ready' = "null"
            /\ import_failed' = "null"
            /\ finish_ret' = "true"
       ELSE /\ finish_ret' = "false"
            /\ UNCHANGED <<positions_ptr, import_positions_ptr, released,
                           modelReady, modelLoadFailed, import_ready,
                           import_failed>>
    /\ finish_tick' = ~finish_tick
    /\ finish_at' = import_pc
    /\ UNCHANGED <<nextBuf, initial_pc, initial_out, import_pc, import_out,
                   nloads, nimports, crashed, initial_file, import_file>>
    /\ UNCHANGED notLoader

\* A task that writes vectors that have been released writes freed memory:
\* the process may die of it at any moment, or go on.
WriteAfterRelease ==
    /\ ~crashed
    /\ \/ InitialWrites /\ initial_out \in released
       \/ ImportWrites /\ import_out \in released
    /\ crashed' = TRUE
    /\ UNCHANGED <<positions_ptr, import_positions_ptr, import_ready,
                   import_failed, modelReady, modelLoadFailed, nextBuf,
                   released, initial_pc, initial_out, import_pc, import_out,
                   nloads, nimports>>
    /\ UNCHANGED <<initial_file, import_file, finishvars>>
    /\ UNCHANGED notLoader

NextLoader ==
    \/ startInitialLoad
    \/ InitialWorkerStart
    \/ InitialWorkerFinish
    \/ requestImportAsync
    \/ ImportWorkerStart
    \/ ImportWorkerFinish
    \/ maybeFinishImport
    \/ WriteAfterRelease

SpecLoader == InitLoader /\ [][NextLoader]_vars

(***************************************************************************)
(* App: App::run starts the initial load and then runs frames.  In a frame *)
(* the event callbacks and the menu come first (where App::requestImport   *)
(* or the Import item can start an import), then maybeFinishImport, then   *)
(* uploadModelIfReady.  A task stores its outcome and then sets isLoading  *)
(* to false.                                                               *)
(***************************************************************************)
notApp == <<pvars, linevars, loadervars>>

\* The files App is given: one that cannot be opened and one that parses.
AppFileKinds == {"unopenable", "parses"}

\* load_obj_simple (declared at app.h:22) fails only when the file cannot
\* be opened.
load_obj_simple(file) == file # "unopenable"

\* The numbers of indices a parsed mesh can have.
IndexCounts == {3 * k : k \in 0..MaxTriangles}

InitApp ==
    /\ ParserIdle
    /\ NoLine
    /\ LoaderIdle
    /\ AppIdle

\* App::run up to the frame loop: App::Impl::startInitialLoad.
AppStartInitialLoad ==
    /\ frame = "start"
    /\ isLoading' = TRUE
    /\ app_positions_ptr' = app_nextBuf
    /\ app_nextBuf' = app_nextBuf + 1
    /\ app_released' = app_released \cup {app_positions_ptr}
    /\ app_modelLoadFailed' = FALSE
    /\ app_modelReady' = FALSE
    /\ app_initial_pc' = "launched"
    /\ frame' = "events"
    /\ app_initial_file' \in AppFileKinds
    /\ UNCHANGED <<app_import_positions_ptr, app_import_ready,
                   app_import_failed, modelUploaded, app_initial_out,
                   app_import_pc, app_import_out, app_nimports, parsed_ok,
                   swapped_in>>
    /\ UNCHANGED <<app_import_file, glvars>>
    /\ UNCHANGED notApp

AppInitialWorkerStart ==
    /\ app_initial_pc = "launched"
    /\ app_initial_pc' = "parsing"
    /\ app_initial_out' = app_positions_ptr
    /\ UNCHANGED <<isLoading, app_positions_ptr, app_import_positions_ptr,
                   app_import_ready, app_import_failed, app_modelReady,
                   app_modelLoadFailed, modelUploaded, app_nextBuf,
                   app_released, app_import_pc, app_import_out, frame,
                   app_nimports, parsed_ok, swapped_in>>
    /\ UNCHANGED <<app_initial_file, app_import_file, glvars>>
    /\ UNCHANGED notApp

\* load_obj_simple returns in the initial task and the outcome is stored.
AppInitialWorkerStore ==
    /\ app_initial_pc = "parsing"
    /\ app_initial_pc' = "stored"
    /\ IF load_obj_simple(app_initial_file)
       THEN /\ app_modelReady' = TRUE
            /\ \E n \in IndexCounts :
                 app_index_count' =
                     [app_index_count EXCEPT ![app_initial_out] = n]
            /\ UNCHANGED app_modelLoadFailed
       ELSE /\ app_modelLoadFailed' = TRUE
            /\ UNCHANGED <<app_modelReady, app_index_count>>
    /\ UNCHANGED <<isLoading, app_positions_ptr, app_import_positions_ptr,
                   app_import_ready, app_import_failed, modelUploaded,
                   app_nextBuf, app_released, app_initial_out, app_import_pc,
                   app_import_out, frame, app_nimports, parsed_ok, swapped_in>>
    /\ UNCHANGED <<app_initial_file, app_import_file, model_index_count,
                   model_ebo>>
    /\ UNCHANGED notApp

\* The last statement of the initial task: isLoading.store(false).
AppInitialWorkerDone ==
    /\ app_initial_pc = "stored"
    /\ app_initial_pc' = "done"
    /\ isLoading' = FALSE
    /\ UNCHANGED <<app_positions_ptr, app_import_positions_ptr,
                   app_import_ready, app_import_failed, app_modelReady,
                   app_modelLoadFailed, modelUploaded, app_nextBuf,
                   app_released, app_initial_out, app_import_pc,
                   app_import_out, frame, app_nimports, parsed_ok, swapped_in>>
    /\ UNCHANGED <<app_initial_file, app_import_file, glvars>>
    /\ UNCHANGED notApp

\* Mutant: the request does not look at isLoading.
requestImport_NoGuard ==
    /\ frame = "events"
    /\ app_nimports < MaxAppImports
    /\ app_import_positions_ptr' = app_nextBuf
    /\ app_nextBuf' = app_nextBuf + 1
    /\ app_released' = IF app_import_positions_ptr = 0 THEN app_released
                       ELSE app_released \cup {app_import_positions_ptr}
    /\ app_import_ready' = "false"
    /\ app_import_failed' = "false"
    /\ isLoading' = TRUE
    /\ app_import_pc' = "launched"
    /\ app_nimports' = app_nimports + 1
    /\ app_import_file' \in AppFileKinds
    /\ UNCHANGED <<app_positions_ptr, app_modelReady, app_modelLoadFailed,
                   modelUploaded, app_initial_pc, app_initial_out,
                   app_import_out, frame, parsed_ok, swapped_in>>
    /\ UNCHANGED <<app_initial_file, glvars>>
    /\ UNCHANGED notApp

\* App::requestImport (or the Import menu item, disabled while isLoading):
\* nothing while isLoading, App::Impl::requestImportAsync otherwise.
requestImport ==
    /\ frame = "events"
    /\ app_nimports < MaxAppImports
    /\ IF isLoading
       THEN UNCHANGED <<isLoading, app_import_positions_ptr, app_import_ready,
                        app_import_failed, app_nextBuf, app_released,
                        app_import_pc, app_nimports, app_import_file>>
       ELSE /\ app_import_positions_ptr' = app_nextBuf
            /\ app_nextBuf' = app_nextBuf + 1
            /\ app_released' = IF app_import_positions_ptr = 0 THEN app_released
                               ELSE app_released \cup {app_import_positions_ptr}
            /\ app_import_ready' = "false"
            /\ app_import_failed' = "false"
            /\ isLoading' = TRUE
            /\ app_import_pc' = "launched"
            /\ app_nimports' = app_nimports + 1
            /\ app_import_file' \in AppFileKinds
    /\ UNCHANGED <<app_positions_ptr, app_modelReady, app_modelLoadFailed,
                   modelUploaded, app_initial_pc, app_initial_out,
                   app_import_out, frame, parsed_ok, swapped_in>>
    /\ UNCHANGED <<app_initial_file, glvars>>
    /\ UNCHANGED notApp

\* The frame goes on from the callbacks and the menu to the import check.
EndEvents ==
    /\ frame = "events"
    /\ frame' = "finish"
    /\ UNCHANGED <<isLoading, app_positions_ptr, app_import_positions_ptr,
                   app_import_ready, app_import_failed, app_modelReady,
                   app_modelLoadFailed, modelUploaded, app_nextBuf,
                   app_released, app_initial_pc, app_initial_out,
                   app_import_pc, app_import_out, app_nimports, parsed_ok,
                   swapped_in>>
    /\ UNCHANGED <<app_initial_file, app_import_file, glvars>>
    /\ UNCHANGED notApp

\* Mutant: the import task clears isLoading when it starts.
AppImportWorkerStart_ClearsFirst ==
    /\ app_import_pc = "launched"
    /\ app_import_pc' = "parsing"
    /\ app_import_out' = app_import_positions_ptr
    /\ isLoading' = FALSE
    /\ UNCHANGED <<app_positions_ptr, app_import_positions_ptr,
                   app_import_ready, app_import_failed, app_modelReady,
                   app_modelLoadFailed, modelUploaded, app_nextBuf,
                   app_released, app_initial_pc, app_initial_out, frame,
                   app_nimports, parsed_ok, swapped_in>>
    /\ UNCHANGED <<app_initial_file, app_import_file, glvars>>
    /\ UNCHANGED notApp

AppImportWorkerStart ==
    /\ app_import_pc = "launched"
    /\ app_import_pc' = "parsing"
    /\ app_import_out' = app_import_positions_ptr
    /\ UNCHANGED <<isLoading, app_positions_ptr, app_import_positions_ptr,
                   app_import_ready, app_import_failed, app_modelReady,
                   app_modelLoadFailed, modelUploaded, app_nextBuf,
                   app_released, app_initial_pc, app_initial_out, frame,
                   app_nimports, parsed_ok, swapped_in>>
    /\ UNCHANGED <<app_initial_file, app_import_file, glvars>>
    /\ UNCHANGED notApp

\* load_obj_simple returns in the import task and the outcome is stored.
AppImportWorkerStore ==
    /\ app_import_pc = "parsing"
    /\ app_import_pc' = "stored"
    /\ IF load_obj_simple(app_import_file)
       THEN /\ app_import_ready' = "true"
            /\ parsed_ok' = parsed_ok \cup {app_import_out}
            /\ \E n \in IndexCounts :
                 app_index_count' =
                     [app_index_count EXCEPT ![app_import_out] = n]
            /\ UNCHANGED app_import_failed
       ELSE /\ app_import_failed' = "true"
            /\ UNCHANGED <<app_import_ready, parsed_ok, app_index_count>>
    /\ UNCHANGED <<isLoading, app_positions_ptr, app_import_positions_ptr,
                   app_modelReady, app_modelLoadFailed, modelUploaded,
                   app_nextBuf, app_released, app_initial_pc, app_initial_out,
                   app_import_out, frame, app_nimports, swapped_in>>
    /\ UNCHANGED <<app_initial_file, app_import_file, model_index_count,
                   model_ebo>>
    /\ UNCHANGED notApp

\* Mutant: the import task ends without clearing isLoading.
AppImportWorkerDone_KeepsLoading ==
    /\ app_import_pc = "stored"
    /\ app_import_pc' = "done"
    /\ UNCHANGED <<isLoading, app_positions_ptr, app_import_positions_ptr,
                   app_import_ready, app_import_failed, app_modelReady,
                   app_modelLoadFailed, modelUploaded, app_nextBuf,
                   app_released, app_initial_pc, app_initial_out,
                   app_import_out, frame, app_nimports, parsed_ok, swapped_in>>
    /\ UNCHANGED <<app_initial_file, app_import_file, glvars>>
    /\ UNCHANGED notApp

\* The last statement of the import task: isLoading.store(false).
AppImportWorkerDone ==
    /\ app_import_pc = "stored"
    /\ app_import_pc' = "done"
    /\ isLoading' = FALSE
    /\ UNCHANGED <<app_positions_ptr, app_import_positions_ptr,
                   app_import_ready, app_import_failed, app_modelReady,
                   app_modelLoadFailed, modelUploaded, app_nextBuf,
                   app_released, app_initial_pc, app_initial_out,
                   app_import_out, frame, app_nimports, parsed_ok, swapped_in>>
    /\ UNCHANGED <<app_initial_file, app_import_file, glvars>>
    /\ UNCHANGED notApp

\* Mutant: the swap keeps the GL objects and modelUploaded.
AppMaybeFinishImport_KeepsUpload ==
    /\ frame = "finish"
    /\ frame' = "upload"
    /\ IF app_import_ready = "true"
       THEN /\ IF app_import_failed = "true"
               THEN UNCHANGED <<app_positions_ptr, app_import_positions_ptr,
                                app_released, app_modelReady,
                                app_modelLoadFailed, modelUploaded, swapped_in,
                                model_ebo>>
               ELSE /\ UNCHANGED <<model_ebo, modelUploaded>>
                    /\ app_positions_ptr' = app_import_positions_ptr
                    /\ app_import_positions_ptr' = 0
                    /\ app_released' = app_released \cup {app_positions_ptr}
                    /\ app_modelReady' = TRUE
                    /\ app_modelLoadFailed' = FALSE
                    /\ swapped_in' = swapped_in \cup {app_import_positions_ptr}
            /\ app_import_ready' = "null"
            /\ app_import_failed' = "null"
       ELSE UNCHANGED <<app_positions_ptr, app_import_positions_ptr,
                        app_released, app_modelReady, app_modelLoadFailed,
                        modelUploaded, swapped_in, app_import_ready,
                        app_import_failed, model_ebo>>
    /\ UNCHANGED <<isLoading, app_nextBuf, app_initial_pc, app_initial_out,
                   app_import_pc, app_import_out, app_nimports, parsed_ok>>
    /\ UNCHANGED <<app_initial_file, app_import_file, app_index_count,
                   model_index_count>>
    /\ UNCHANGED notApp

\* App::Impl::maybeFinishImport, once per frame.
AppMaybeFinishImport ==
    /\ frame = "finish"
    /\ frame' = "upload"
    /\ IF app_import_ready = "true"
       THEN /\ IF app_import_failed = "true"
               THEN UNCHANGED <<app_positions_ptr, app_import_positions_ptr,
                                app_released, app_modelReady,
                                app_modelLoadFailed, modelUploaded, swapped_in,
                                model_ebo>>
               ELSE /\ model_ebo' = 0
                    /\ modelUploaded' = FALSE
                    /\ app_positions_ptr' = app_import_positions_ptr
                    /\ app_import_positions_ptr' = 0
                    /\ app_released' = app_released \cup {app_positions_ptr}
                    /\ app_modelReady' = TRUE
                    /\ app_modelLoadFailed' = FALSE
                    /\ swapped_in' = swapped_in \cup {app_import_positions_ptr}
            /\ app_import_ready' = "null"
            /\ app_import_failed' = "null"
       ELSE UNCHANGED <<app_positions_ptr, app_import_positions_ptr,
                        app_released, app_modelReady, app_modelLoadFailed,
                        modelUploaded, swapped_in, app_import_ready,
                        app_import_failed, model_ebo>>
    /\ UNCHANGED <<isLoading, app_nextBuf, app_initial_pc, app_initial_out,
                   app_import_pc, app_import_out, app_nimports, parsed_ok>>
    /\ UNCHANGED <<app_initial_file, app_import_file, app_index_count,
                   model_index_count>>
    /\ UNCHANGED notApp

\* App::Impl::uploadModelIfReady, once per frame; the frame is then drawn
\* and the next one starts.
uploadModelIfReady ==
    /\ frame = "upload"
    /\ frame' = "events"
    /\ IF ~modelUploaded /\ app_modelReady
       THEN /\ model_ebo' = app_positions_ptr
            /\ model_index_count' = app_index_count[app_positions_ptr]
            /\ modelUploaded' = TRUE
       ELSE UNCHANGED <<model_ebo, model_index_count, modelUploaded>>
    /\ UNCHANGED <<isLoading, app_positions_ptr, app_import_positions_ptr,
                   app_import_ready, app_import_failed, app_modelReady,
                   app_modelLoadFailed, app_nextBuf, app_released,
                   app_initial_pc, app_initial_out, app_import_pc,
                   app_import_out, app_nimports, parsed_ok, swapped_in>>
    /\ UNCHANGED <<app_initial_file, app_import_file, app_index_count>>
    /\ UNCHANGED notApp

NextApp ==
    \/ AppStartInitialLoad
    \/ AppInitialWorkerStart
    \/ AppInitialWorkerStore
    \/ AppInitialWorkerDone
    \/ requestImport
    \/ EndEvents
    \/ AppImportWorkerStart
    \/ AppImportWorkerStore
    \/ AppImportWorkerDone
    \/ AppMaybeFinishImport
    \/ uploadModelIfReady

SpecApp == InitApp /\ [][NextApp]_vars

(***************************************************************************)
(* A program that uses a Loader or runs the App: App::Impl has its own     *)
(* copy of the loading code and nothing in the repository uses the two     *)
(* together, so a behaviour is one of Loader or one of App.                *)
(***************************************************************************)
NextLoaderApp ==
    \/ (frame = "start" /\ NextLoader)
    \/ (LoaderIdle /\ NextApp)

SpecLoaderApp == InitLoader /\ [][NextLoaderApp]_vars

\* std::async with std::launch::async runs each task on a thread of its
\* own, which the scheduler keeps running: a task that can take its next
\* step takes it.
SpecLoaderAppFair ==
    /\ InitLoader
    /\ [][NextLoaderApp]_vars
    /\ WF_vars(InitialWorkerStart)
    /\ WF_vars(InitialWorkerFinish)
    /\ WF_vars(ImportWorkerStart)
    /\ WF_vars(ImportWorkerFinish)
    /\ WF_vars(AppInitialWorkerStart)
    /\ WF_vars(AppInitialWorkerStore)
    /\ WF_vars(AppInitialWorkerDone)
    /\ WF_vars(AppImportWorkerStart)
    /\ WF_vars(AppImportWorkerStore)
    /\ WF_vars(AppImportWorkerDone)

SpecAppFair ==
    /\ InitApp
    /\ [][NextApp]_vars
    /\ WF_vars(AppInitialWorkerStart)
    /\ WF_vars(AppInitialWorkerStore)
    /\ WF_vars(AppInitialWorkerDone)
    /\ WF_vars(AppImportWorkerStart)
    /\ WF_vars(AppImportWorkerStore)
    /\ WF_vars(AppImportWorkerDone)

(***************************************************************************)
(* Properties.                                                             *)
(***************************************************************************)
Done == pc = "done"
Corners == 1..Len(corners)
\* The output vertex of corner i (out_indices holds zero-based indices).
OutPosOf(i) == out_positions[out_indices[i] + 1]
OutNormOf(i) == out_normals[out_indices[i] + 1]

\* C1: after a successful parse the output positions and normals have the
\* same length, the number of indices is a multiple of 3, and every index
\* is at least 0 and less than the number of positions.
C1_MeshBuffersInvariant ==
    (Done /\ ret = TRUE) =>
        /\ Len(out_positions) = Len(out_normals)
        /\ Len(out_indices) % 3 = 0
        /\ \A i \in 1..Len(out_indices) :
             0 <= out_indices[i] /\ out_indices[i] < Len(out_positions)

\* A quad whose six corners were welded into fewer, but several, vertices.
C1_Witness ==
    /\ Done /\ ret = TRUE
    /\ Len(temp_pos) = 2
    /\ Len(temp_norm) = 1
    /\ Len(out_indices) = 6
    /\ Len(out_positions) = 3

\* C2: two corners with the same resolved position index and the same
\* resolved normal index get the same output index, and every output vertex
\* is the vertex of some corner, so no pair has two output vertices.
C2_SamePairSameVertex ==
    Done =>
        /\ Len(out_indices) = Len(corners)
        /\ \A i, j \in Corners :
             (corners[i].fp = corners[j].fp /\ corners[i].fn = corners[j].fn)
                 => out_indices[i] = out_indices[j]
        /\ \A i, j \in Corners :
             (pos_idx[i] = pos_idx[j] /\ norm_idx[i] = norm_idx[j])
                 => out_indices[i] = out_indices[j]
        /\ \A k \in 0..(Len(out_positions) - 1) :
             \E i \in Corners : out_indices[i] = k

\* Two corners of different triangles of a quad carry the same pair, next to
\* corners that carry other pairs.
C2_Witness ==
    /\ Done
    /\ Len(temp_pos) = 2
    /\ Len(out_positions) >= 2
    /\ \E i \in 1..3, j \in 4..Len(corners) :
         /\ i # 1
         /\ corners[i].fp = corners[j].fp
         /\ corners[i].fn = corners[j].fn
         /\ corners[i].fp >= 1

\* The WeldKey of corner i: its resolved position index and its resolved
\* normal index, where fn = -1 is the missing-normal sentinel.
WeldKeyOf(i) == <<pos_idx[i], corners[i].fn>>

\* C3: the number of output vertices is the number of distinct WeldKeys of
\* the emitted corners, a missing normal being a key value of its own, and
\* corners with different WeldKeys never share an output index.
C3_OneVertexPerWeldKey ==
    Done =>
        /\ Len(out_positions) = Cardinality({WeldKeyOf(i) : i \in Corners})
        /\ \A i, j \in Corners :
             WeldKeyOf(i) # WeldKeyOf(j) => out_indices[i] # out_indices[j]

\* C4: an `f` line with N >= 3 accepted references appends exactly N-2
\* triangles, triangle i (i = 2..N-1) being the face's references 0, i-1, i
\* in that order, and the index array ends with 3 entries per triangle.
C4_FanLaw ==
    [][/\ (pc = "face" /\ pc' = "scan" /\ Len(face_pos_idx) >= 3) =>
            LET N == Len(face_pos_idx)
                base == Len(pos_idx)
                P(k) == IF face_pos_idx[k] >= 0 THEN face_pos_idx[k] ELSE 0
                Q(k) == IF face_norm_idx[k] >= 0 THEN face_norm_idx[k] ELSE 0
            IN /\ Len(pos_idx') = base + 3 * (N - 2)
               /\ Len(norm_idx') = base + 3 * (N - 2)
               /\ \A i \in 2..(N - 1) :
                    LET o == base + 3 * (i - 2) IN
                    /\ pos_idx'[o + 1] = P(1)
                    /\ pos_idx'[o + 2] = P(i)
                    /\ pos_idx'[o + 3] = P(i + 1)
                    /\ norm_idx'[o + 1] = Q(1)
                    /\ norm_idx'[o + 2] = Q(i)
                    /\ norm_idx'[o + 3] = Q(i + 1)
               /\ \A k \in 1..base :
                    pos_idx'[k] = pos_idx[k] /\ norm_idx'[k] = norm_idx[k]
       /\ pc' = "done" => Len(out_indices') = Len(pos_idx')]_vars

\* A quad of four different references was triangulated and welded.
C4_Witness ==
    /\ Done
    /\ Len(out_indices) = 6
    /\ Len(temp_pos) = 2
    /\ corners[1].vi = 1 /\ corners[2].vi = 2
    /\ corners[3].vi = 0 - 1 /\ corners[6].vi = 0 - 2

\* C5: a corner without a normal reference (ni = 0: token `v`, `v/vt`, or a
\* normal component of 0) gets output normal (0,0,1), whatever `vn` lines
\* the file has.
C5_MissingNormalGetsDefault ==
    Done =>
        \A i \in Corners :
            corners[i].ni = 0 => OutNormOf(i) = DefaultNormal

\* C6: a negative position (normal) reference r resolves to the zero-based
\* index poolSize + r, poolSize being the number of `v` (`vn`) lines read
\* before the face line; lines read later do not change it, and the corner
\* is output with the pool entry at that index.
C6_NegativeReference ==
    /\ Len(pos_idx) = Len(corners)
    /\ Len(norm_idx) = Len(corners)
    /\ \A i \in Corners :
         LET c == corners[i] IN
         /\ c.vi < 0 =>
              /\ c.posIndex = c.npos + c.vi
              /\ c.npos + c.vi >= 0 =>
                   /\ pos_idx[i] = c.npos + c.vi
                   /\ Done => OutPosOf(i) = temp_pos[c.npos + c.vi + 1]
         /\ c.ni < 0 =>
              /\ c.normIndex = c.nnorm + c.ni
              /\ c.nnorm + c.ni >= 0 =>
                   /\ norm_idx[i] = c.nnorm + c.ni
                   /\ Done => OutNormOf(i) = temp_norm[c.nnorm + c.ni + 1]

\* A face read after one `v` line refers to -1, a second `v` line follows,
\* and the corner is output with the first position.
C6_Witness ==
    /\ Done
    /\ Len(temp_pos) = 2
    /\ \E i \in Corners :
         /\ corners[i].vi = 0 - 1
         /\ corners[i].npos = 1
         /\ OutPosOf(i) = temp_pos[1]
    /\ \E i \in Corners :
         /\ corners[i].ni = 0 - 1
         /\ corners[i].nnorm = 1

\* The pair the welder uses as the key of corner i.
KeyOf(i) == <<pos_idx[i], norm_idx[i]>>
\* The first corner that carries the key of corner i.
FirstOf(i) == CHOOSE f \in 1..i :
                 /\ KeyOf(f) = KeyOf(i)
                 /\ \A g \in 1..(f - 1) : KeyOf(g) # KeyOf(i)

\* C7: the k-th distinct (position, normal) pair in corner order, counted
\* from 0, gets output index k, and positions[k] is the pool position the
\* pair refers to.
C7_SequentialIndices ==
    Done =>
        /\ Len(out_indices) = Len(pos_idx)
        /\ \A i \in 1..Len(pos_idx) :
             /\ out_indices[i] =
                  Cardinality({KeyOf(g) : g \in 1..(FirstOf(i) - 1)})
             /\ pos_idx[i] < Len(temp_pos) =>
                  out_positions[out_indices[i] + 1] = temp_pos[pos_idx[i] + 1]

\* A quad over two positions and two normal indices: three distinct pairs
\* in first-occurrence order, one of them reused by the second triangle.
C7_Witness ==
    /\ Done
    /\ Len(temp_pos) = 2
    /\ out_indices = <<0, 1, 2, 0, 2, 1>>
    /\ out_positions = <<temp_pos[1], temp_pos[2], temp_pos[1]>>

\* C8: a corner whose positive position reference is greater than the
\* number of positions of the file is output with position (0,0,0), and the
\* parse returns success.
C8_PositiveOutOfRangePosition ==
    Done =>
        /\ ret = TRUE
        /\ \A i \in Corners :
             corners[i].vi > Len(temp_pos) => OutPosOf(i) = Zero3

\* One `v` line and a face that refers to position 2.
C8_Witness ==
    /\ Done /\ ret = TRUE
    /\ Len(temp_pos) = 1
    /\ \E i, j \in Corners :
         /\ corners[i].vi = 2 /\ OutPosOf(i) = Zero3
         /\ corners[j].vi = 1 /\ OutPosOf(j) = temp_pos[1]

\* C9: a corner whose negative position reference reaches before the start
\* of a non-empty position pool is output with position (0,0,0).
C9_NegativeOutOfRangePosition ==
    Done =>
        \A i \in Corners :
            LET c == corners[i] IN
            (c.vi < 0 /\ c.npos > 0 /\ 0 - c.vi > c.npos)
                => OutPosOf(i) = Zero3

\* C10: a corner whose normal reference is outside the normal pool (positive
\* beyond the pool, or negative reaching before its start) gets the default
\* normal (0,0,1).
C10_OutOfRangeNormalGetsDefault ==
    Done =>
        \A i \in Corners :
            LET c == corners[i] IN
            (c.ni > Len(temp_norm) \/ (c.ni < 0 /\ c.nnorm + c.ni < 0))
                => OutNormOf(i) = DefaultNormal

\* C11: a corner whose position reference is 0 resolves to position index
\* 0: it is output with the first position of the pool, and it shares its
\* output vertex with the corners that refer to position 1 and carry the
\* same normal index.
C11_ZeroPositionIsIndexZero ==
    /\ \A i \in Corners : corners[i].vi = 0 => pos_idx[i] = 0
    /\ Done =>
         \A i \in Corners :
            corners[i].vi = 0 =>
               /\ temp_pos # <<>> => OutPosOf(i) = temp_pos[1]
               /\ \A j \in Corners :
                    (corners[j].vi = 1 /\ norm_idx[j] = norm_idx[i])
                        => out_indices[j] = out_indices[i]

\* A face with the references 0 and 1 (no normals) and a third position,
\* read after two `v` lines.
C11_Witness ==
    /\ Done
    /\ Len(temp_pos) = 2
    /\ \E i, j, k \in Corners :
         /\ corners[i].vi = 0 /\ corners[i].npos = 2
         /\ corners[j].vi = 1
         /\ corners[k].vi = 2
         /\ out_indices[i] = out_indices[j]
         /\ out_indices[k] # out_indices[i]
         /\ OutPosOf(i) = temp_pos[1]

\* C12: an `f` line of which fewer than 3 tokens resolve to a position
\* reference (tokens with a non-numeric or a 0 position component do not
\* count) emits no triangles, and the parse goes on.
C12_DegenerateFaceDropped ==
    [][(pc = "face" /\ pc' = "scan"
        /\ Cardinality({k \in 1..Len(face_raw) : face_raw[k].vi # 0}) < 3)
          => (pos_idx' = pos_idx /\ norm_idx' = norm_idx)]_vars

\* The tokens of the given line that the token loop has read, and those of
\* them whose leading component is an integer.
LineRead == SubSeq(line, 1, consumed)
IsNumLead(tok) == tok[1].text = "int"
GoodRead == SelectSeq(LineRead, IsNumLead)
\* The references written in a token of one of the four grammars.
vOf(tok) == tok[1].val
vnOf(tok) == IF Len(tok) = 3 THEN tok[3].val ELSE 0
\* The face vectors of a line made of the tokens toks alone.
FacePosOf(toks) ==
    [k \in 1..Len(toks) |-> FaceEntry(convert_index(vOf(toks[k]), Len(temp_pos)))]
FaceNormOf(toks) ==
    [k \in 1..Len(toks) |-> FaceEntry(convert_index(vnOf(toks[k]), Len(temp_norm)))]

\* C13: a face token whose leading component is not an integer is skipped
\* without aborting the face: the face vectors, the triangles emitted at
\* the end of the line and the output are those of the line without the
\* malformed tokens, its other tokens taken in order.
C13_MalformedTokenSkipped ==
    /\ pc = "face" =>
         /\ face_pos_idx = FacePosOf(GoodRead)
         /\ face_norm_idx = FaceNormOf(GoodRead)
    /\ pc \in {"scan", "done"} =>
         /\ pos_idx = CornerIndices(Fan(FacePosOf(GoodRead)))
         /\ norm_idx = CornerIndices(Fan(FaceNormOf(GoodRead)))
    /\ pc = "done" => Len(out_indices) = Len(Fan(FacePosOf(GoodRead)))

\* A malformed token between the first and the third well-formed token of a
\* triangle that has been output.
C13_Witness ==
    /\ pc = "done"
    /\ Len(line) = 4
    /\ consumed = 4
    /\ ~IsNumLead(line[2])
    /\ Len(GoodRead) = 3
    /\ Len(out_indices) = 3

\* C14: for a token of the grammar v, v/vt, v//vn or v/vt/vn the parsed
\* position reference is v and the parsed normal reference is vn, missing
\* for v and v/vt; the output is a function of the v and vn of the tokens,
\* whatever their vt.
C14_GrammarReferences ==
    /\ pc = "face" =>
         /\ Len(face_raw) = Len(GoodRead)
         /\ \A k \in 1..Len(face_raw) :
              LET tok == GoodRead[k] IN
              /\ face_raw[k].vi = tok[1].val
              /\ Len(tok) = 3 => face_raw[k].ni = tok[3].val
              /\ Len(tok) < 3 => (face_raw[k].ni = 0 /\ face_norm_idx[k] = 0 - 1)
    /\ pc = "done" =>
         LET m == Weld(CornerIndices(Fan(FacePosOf(GoodRead))),
                       CornerIndices(Fan(FaceNormOf(GoodRead))),
                       temp_pos, temp_norm)
         IN /\ out_positions = m.positions
            /\ out_normals = m.normals
            /\ out_indices = m.indices

\* One token of each grammar has been read, with two values of vt.
C14_Witness ==
    /\ pc = "face"
    /\ consumed = 4
    /\ line = <<(<<Num(1)>>), <<Num(2), Num(2)>>, <<Num(1), Empty, Num(1)>>,
                <<Num(2), Num(1), Num(1)>>>>
    /\ Len(face_raw) = 4
    /\ face_raw[2].ni = 0
    /\ face_raw[4].ni = 1

\* C15: when the file cannot be opened the parse returns failure and leaves
\* the caller's positions, normals and indices and the progress cell as
\* they were passed in.
C15_FailedOpenChangesNothing ==
    [][(pc = "open" /\ pc' = "failed")
          => /\ ret' = FALSE
             /\ out_positions' = out_positions
             /\ out_normals' = out_normals
             /\ out_indices' = out_indices
             /\ progress' = progress
             /\ stores' = stores]_vars

\* A failed open with the caller's vectors and cell still holding what an
\* earlier load left.
C15_Witness ==
    /\ pc = "failed"
    /\ ret = FALSE
    /\ ~openable
    /\ out_positions = StaleMesh.positions
    /\ out_normals = StaleMesh.normals
    /\ out_indices = StaleMesh.indices
    /\ progress = One
    /\ stores = <<>>

Returned == pc \in {"done", "failed", "returned"}

\* C16: load_model_simple returns failure only when the file cannot be
\* opened: a call on a file that can be opened returns, and returns success.
C16_FailureOnlyWhenNotOpenable ==
    /\ (Returned /\ ret = FALSE) => ~openable
    /\ (pc \in {"done", "failed", "returned", "thrown"} /\ openable)
          => (Returned /\ ret = TRUE)

\* C17: every value stored into the progress cell lies in [0,1] and is at
\* least the value stored before it, and on success the last value stored
\* is 1.
C17_ProgressMonotone ==
    /\ \A k \in 1..Len(stores) : Leq(Zero, stores[k]) /\ Leq(stores[k], One)
    /\ \A k \in 1..(Len(stores) - 1) : Leq(stores[k], stores[k + 1])
    /\ (Returned /\ ret = TRUE) =>
         (stores # <<>> /\ stores[Len(stores)] = One /\ progress = One)

\* A parse that stored a fraction inside the loop and then read a last
\* line without newline that took bytesSeen past the size of the file.
C17_Witness ==
    /\ pc = "done"
    /\ bytesSeen = fileBytes + 1
    /\ lastProgressUpdateBytes = bytesSeen
    /\ Len(stores) >= 4
    /\ \E k \in 1..Len(stores) : stores[k] \notin {Zero, One}

\* C18: whenever modelReady is true, no task is writing the vectors that
\* positions_ptr, normals_ptr and indices_ptr refer to.
C18_NoWriterWhileReady ==
    modelReady =>
        /\ ~(InitialWrites /\ initial_out = positions_ptr)
        /\ ~(ImportWrites /\ import_out = positions_ptr)

\* C19: the vectors a task writes are not released while the task is
\* writing them.
C19_WrittenBuffersStayOwned ==
    /\ ~(InitialWrites /\ initial_out \in released)
    /\ ~(ImportWrites /\ import_out \in released)

\* C20: an import that App::requestImport started and that parsed is
\* swapped in as the current mesh: its vectors are never released without
\* having been made current.
C20_ParsedImportIsSwappedIn ==
    \A b \in parsed_ok : b \in app_released => b \in swapped_in

\* C21: in App two import parses never run at the same time: an import is
\* started, and the import pointers and flags are replaced by a request,
\* only when isLoading is false and no task is running; and isLoading is
\* true for as long as an import task has not stored its outcome.
C21_OneImportAtATime ==
    [][/\ app_import_pc \in {"launched", "parsing"} => isLoading
       /\ app_nimports' # app_nimports =>
            /\ ~isLoading
            /\ app_import_pc \in {"idle", "done"}
            /\ app_initial_pc = "done"]_vars

\* A second import has been started, after the first one was over; and an
\* import is parsing at a point of the frame where a request can be made.
C21_Witness ==
    /\ app_nimports = 2
    /\ app_import_pc = "parsing"
    /\ isLoading
    /\ frame = "events"

\* C22: when maybeFinishImport completes a successful import, in Loader
\* and in App, the current mesh becomes the vectors the import task wrote,
\* which no initial load has written; the previous mesh is released, the
\* import pointers are left null and modelReady is true.
C22_SwapInstallsImport ==
    [][/\ (import_ready = "true" /\ import_ready' = "null") =>
            /\ positions_ptr' = import_positions_ptr
            /\ positions_ptr' = import_out
            /\ positions_ptr' # initial_out
            /\ positions_ptr' # positions_ptr
            /\ positions_ptr \in released'
            /\ positions_ptr' \notin released'
            /\ import_positions_ptr' = 0
            /\ modelReady'
       /\ (app_import_ready = "true" /\ app_import_ready' = "null") =>
            /\ app_positions_ptr' = app_import_positions_ptr
            /\ app_positions_ptr' = app_import_out
            /\ app_positions_ptr' # app_initial_out
            /\ app_positions_ptr' # app_positions_ptr
            /\ app_positions_ptr \in app_released'
            /\ app_positions_ptr' \notin app_released'
            /\ app_import_positions_ptr' = 0
            /\ app_modelReady']_vars

\* A Loader has swapped in an import that parsed, by a call that returned
\* true.
C22_Witness ==
    /\ nimports >= 1
    /\ import_file = "parses"
    /\ import_ready = "null"
    /\ finish_ret = "true"
    /\ positions_ptr = import_out
    /\ modelReady

\* An App has swapped an import in.
AppSwappedIn ==
    /\ swapped_in # {}
    /\ app_positions_ptr \in swapped_in
    /\ app_modelReady

\* The import in flight or finished is one whose parse fails.
ImportFails(file) ==
    file \in FileKinds /\ load_model_simple(file) = "false"

\* C23: an import whose parse fails leaves the mesh as it was: from the
\* request on, through the failure and every maybeFinishImport call after
\* it, no step other than those of the initial load changes positions_ptr
\* (with normals_ptr and indices_ptr), modelReady or modelLoadFailed.
C23_FailedImportLeavesMesh ==
    [][(/\ ImportFails(import_file')
        /\ initial_pc' = initial_pc
        /\ nloads' = nloads)
          => /\ positions_ptr' = positions_ptr
             /\ modelReady' = modelReady
             /\ modelLoadFailed' = modelLoadFailed]_vars

\* A mesh is shown, an import has failed and maybeFinishImport has been
\* called after the failure.
C23_Witness ==
    /\ modelReady
    /\ import_failed = "true"
    /\ import_pc = "done"
    /\ finish_at = "done"
    /\ finish_ret = "false"

C25_RangeJudgedAtFaceLine ==
    Done =>
        \A i \in Corners :
            corners[i].vi > corners[i].npos => OutPosOf(i) = Zero3

\* C26: once the task of an import has finished, with a parse that
\* succeeded or failed, the next maybeFinishImport call returns true (in
\* Loader) and leaves import_ready and import_failed (and import_progress)
\* null; in Loader and in App.
C26_FinishedImportIsCleared ==
    [][/\ (/\ finish_tick' # finish_tick
            /\ import_pc = "done"
            /\ (import_ready = "true" \/ import_failed = "true"))
             => /\ finish_ret' = "true"
                /\ import_ready' = "null"
                /\ import_failed' = "null"
       /\ (/\ frame = "finish" /\ frame' = "upload"
            /\ app_import_pc = "done"
            /\ (app_import_ready = "true" \/ app_import_failed = "true"))
             => /\ app_import_ready' = "null"
                /\ app_import_failed' = "null"]_vars

\* C27: in Loader modelReady and modelLoadFailed are never both true, in
\* any interleaving of one initial load, one import and the calls of
\* maybeFinishImport.
C27_ReadyAndFailedExclusive ==
    (nloads <= 1 /\ nimports <= 1) => ~(modelReady /\ modelLoadFailed)

\* C28: in App, while a task started by startInitialLoad or
\* requestImportAsync has not finished its parse isLoading is true, and when
\* isLoading is false every task that was started has stored its outcome:
\* the initial one in modelReady or modelLoadFailed, the import one in
\* import_ready or import_failed (until maybeFinishImport swaps the import
\* in and clears them).
C28_IsLoadingCoversParse ==
    /\ (\/ app_initial_pc \in {"launched", "parsing"}
        \/ app_import_pc \in {"launched", "parsing"}) => isLoading
    /\ ~isLoading =>
          /\ app_initial_pc \in {"idle", "done"}
          /\ app_import_pc \in {"idle", "done"}
          /\ app_initial_pc = "done" =>
                (app_modelReady \/ app_modelLoadFailed)
          /\ app_import_pc = "done" =>
                \/ app_import_ready = "true"
                \/ app_import_failed = "true"
                \/ /\ app_import_ready = "null"
                   /\ app_import_out \in swapped_in

\* The initial load has failed and cleared isLoading, and an import
\* requested after it is being parsed.
C28_Witness ==
    /\ app_initial_pc = "done"
    /\ app_modelLoadFailed
    /\ app_import_pc = "parsing"
    /\ isLoading

C30_UploadMatchesCurrent ==
    /\ [](modelUploaded =>
            /\ model_index_count = app_index_count[app_positions_ptr]
            /\ model_ebo = app_positions_ptr
            /\ ~(/\ app_initial_pc = "parsing"
                 /\ app_initial_out = app_positions_ptr)
            /\ ~(/\ app_import_pc = "parsing"
                 /\ app_import_out = app_positions_ptr))
    /\ [][/\ (app_import_ready = "true" /\ app_import_ready' = "null")
               => ~modelUploaded'
          /\ (frame = "upload" /\ frame' = "events" /\ app_modelReady)
               => /\ modelUploaded'
                  /\ model_ebo' = app_positions_ptr']_vars

\* The mesh of an import, with a number of indices other than that of the
\* initial mesh, has been swapped in and uploaded.
C30_Witness ==
    /\ modelUploaded
    /\ app_positions_ptr \in swapped_in
    /\ model_ebo = app_positions_ptr
    /\ model_index_count = 6
    /\ app_index_count[app_initial_out] = 3
    /\ frame = "events"

====
